---- MODULE Spec2Model ----
(***************************************************************************)
(* Model of the atlas tooling of qsipipeline-VUMC-Psychiatry:              *)
(*   create_custom_atlas/build_custom_hcp_thomas.py  (atlas build)         *)
(*   create_custom_atlas/tidy_LUTS_qsirecon.py       (tidy LUT)            *)
(*   warp_parc_to_acpc_and_mni.py                    (warp to ACPC, MNI)   *)
(*   bidsify/bidsify_qsiprep.py                      (sidecar edits)       *)
(*   bidsify/fix_dwi_sidecars_and_sbref.py           (sidecar fixes)       *)
(* Label volumes are numpy arrays: a shape and one value per index.  The   *)
(* three spatial axes of a volume are folded into the first axis of the    *)
(* model's arrays; a second axis stands for an extra (4th) axis of a file. *)
(***************************************************************************)
EXTENDS Integers, Sequences, FiniteSets, TLC

VARIABLES
  \* ---- build_custom_hcp_thomas.py: main() ----
  pc,                  \* position of main()
  keep_hcp_ids,        \* args.keep_hcp_ids
  left_offset,         \* args.left_offset
  right_offset,        \* args.right_offset
  hcp_vol,             \* aparc_HCP-MMP1.mgz as loaded (int32), or NoFile
  lh_annot,            \* what read_annot returned for lh.HCP-MMP1.annot
  rh_annot,            \* what read_annot returned for rh.HCP-MMP1.annot
  thomas_left_in_fs,   \* thomas_left_in_FS.mgz as loaded (int32), or NoFile
  thomas_right_in_fs,  \* thomas_right_in_FS.mgz as loaded (int32), or NoFile
  merged,              \* aparc_HCPMMP1_plus_THOMAS.mgz, or NoFile
  left_map,            \* remap dict returned by the stitch (left)
  right_map,           \* remap dict returned by the stitch (right)
  l_names,             \* thomas_value_to_name_map(left root)
  r_names,             \* thomas_value_to_name_map(right root)
  labels_tsv,          \* rows of atlas_labels.tsv, or NoFile
  manifest,            \* build_hcp_thomas_manifest.json, or NoFile
  cmds,                \* the external commands run() was given, in order
  \* ---- tidy_LUTS_qsirecon.py: main() ----
  t_pc,                \* position of main()
  dseg,                \* args.dseg: the voxel values get_fdata() returns
  hcp_lut,             \* args.hcp_lut: the lines of the text file
  thomas_lut,          \* args.thomas_lut: the table pd.read_csv returns
  present,             \* load_present_ids(args.dseg)
  hcp_map,             \* load_hcp_lut(args.hcp_lut)
  thomas_map,          \* load_thomas_lut(args.thomas_lut)
  out_tsv,             \* rows of args.out_tsv, or NoFile
  t_error,             \* the exception that ended main(), or "none"
  \* ---- tidy_LUTS_qsirecon.py: normalized_lr applied to a name ----
  n_pc,                \* how often normalized_lr has been applied
  n_name,              \* the name
  n_first,             \* normalized_lr(name)
  n_second,            \* normalized_lr(normalized_lr(name)[1])
  \* ---- warp_parc_to_acpc_and_mni.py: main() ----
  w_pc,                \* position of main()
  w_exes,              \* the executables shutil.which finds
  w_inputs,            \* the input paths that exist
  w_parc_acpc_out,     \* args.parc_acpc_out, or None
  w_parc_mni_out,      \* args.parc_mni_out, or None
  w_cmds,              \* the external commands run() was given, in order
  w_files,             \* the output files the commands have written
  \* ---- bidsify_qsiprep.py, fix_dwi_sidecars_and_sbref.py: one sidecar ----
  s_pc,                \* which of the sidecar operations have run
  s_src,               \* the JSON sidecar in the inputs directory
  s_file,              \* the JSON sidecar in the BIDS directory (json_path)
  s_stem,              \* js_path.stem
  s_ped,               \* ped, as infer_ped_from_dir returned it
  s_intended,          \* intended_for_list
  s_before,            \* s_file at the entry of the last operation
  s_changed            \* what the last fix_json returned

buildVars == <<pc, keep_hcp_ids, left_offset, right_offset, hcp_vol, lh_annot,
               rh_annot, thomas_left_in_fs, thomas_right_in_fs, merged,
               left_map, right_map, l_names, r_names, labels_tsv, manifest,
               cmds>>
tidyVars == <<t_pc, dseg, hcp_lut, thomas_lut, present, hcp_map, thomas_map,
              out_tsv, t_error>>
normVars == <<n_pc, n_name, n_first, n_second>>
warpVars == <<w_pc, w_exes, w_inputs, w_parc_acpc_out, w_parc_mni_out, w_cmds,
              w_files>>
sidecarVars == <<s_pc, s_src, s_file, s_stem, s_ped, s_intended, s_before,
                 s_changed>>
vars == <<buildVars, tidyVars, normVars, warpVars, sidecarVars>>

-----------------------------------------------------------------------------
(* Bounds of the model.                                                    *)

\* Number of voxels along the (folded) spatial axis of a volume.
NVox == 2

\* argparse defaults of --left-offset / --right-offset.
LeftOffsetDefault == 8000
RightOffsetDefault == 9000

NoFile == [absent |-> TRUE]
EmptyMap == [v \in {} |-> 0]

-----------------------------------------------------------------------------
(* Small helpers.                                                          *)

Min(S) == CHOOSE m \in S : \A x \in S : m <= x

\* sorted(S): the ascending sequence of a finite set of integers.
RECURSIVE SortedSeq(_)
SortedSeq(S) ==
  IF S = {} THEN <<>> ELSE <<Min(S)>> \o SortedSeq(S \ {Min(S)})

-----------------------------------------------------------------------------
(* numpy arrays of one or two axes.                                        *)

Indices(shape) ==
  IF Len(shape) = 1
  THEN {<<i>> : i \in 1..shape[1]}
  ELSE {<<i, j>> : i \in 1..shape[1], j \in 1..shape[2]}

Arrays(shape, vals) ==
  {[shape |-> shape, data |-> d] : d \in [Indices(shape) -> vals]}

\* C-order position of an index in an array of that shape.
Pos(shape, idx) ==
  IF Len(shape) = 1 THEN idx[1] ELSE (idx[1] - 1) * shape[2] + idx[2]

\* a > 0
Gt0(a) == [shape |-> a.shape, data |-> [i \in Indices(a.shape) |-> a.data[i] > 0]]

\* Shape right-aligned to n axes (numpy prepends axes of length 1).
Pad(shape, n) == IF Len(shape) < n THEN <<1>> \o shape ELSE shape

BroadcastOK(s1, s2) ==
  LET n == IF Len(s1) > Len(s2) THEN Len(s1) ELSE Len(s2)
      p1 == Pad(s1, n)
      p2 == Pad(s2, n)
  IN \A k \in 1..n : p1[k] = p2[k] \/ p1[k] = 1 \/ p2[k] = 1

BroadcastShape(s1, s2) ==
  LET n == IF Len(s1) > Len(s2) THEN Len(s1) ELSE Len(s2)
      p1 == Pad(s1, n)
      p2 == Pad(s2, n)
  IN [k \in 1..n |-> IF p1[k] = 1 THEN p2[k] ELSE p1[k]]

\* The element of a that an index of the broadcast shape reads.
BRead(a, idx) ==
  LET n == Len(idx)
      p == Pad(a.shape, n)
      full == [k \in 1..n |-> IF p[k] = 1 THEN 1 ELSE idx[k]]
  IN a.data[IF Len(a.shape) < n THEN <<full[2]>> ELSE full]

\* a | b for boolean arrays of broadcastable shapes
BOr(a, b) ==
  LET s == BroadcastShape(a.shape, b.shape)
  IN [shape |-> s, data |-> [i \in Indices(s) |-> BRead(a, i) \/ BRead(b, i)]]

\* arr[mask] is legal: the mask's axes match the leading axes of arr
\* (numpy raises IndexError otherwise).
MaskIndexOK(shape, mshape) ==
  /\ Len(mshape) <= Len(shape)
  /\ \A k \in 1..Len(mshape) : mshape[k] = shape[k]

\* The mask entry that selects index idx of an array indexed by mask.
MaskAt(mask, idx) ==
  mask.data[IF Len(mask.shape) < Len(idx) THEN <<idx[1]>> ELSE idx]

\* Every voxel zeroed, inside the mask or not.
ZeroEverywhere(arr, mask) ==
  [shape |-> arr.shape, data |-> [i \in Indices(arr.shape) |-> 0]]

\* arr[mask] = 0
SetMaskedZero(arr, mask) ==
  [shape |-> arr.shape,
   data |-> [i \in Indices(arr.shape) |-> IF MaskAt(mask, i) THEN 0 ELSE arr.data[i]]]

\* a[a > 0]: the selected values, in C order.
Selected(a) ==
  LET sel == {i \in Indices(a.shape) : a.data[i] > 0}
      ord == SortedSeq({Pos(a.shape, i) : i \in sel})
  IN [k \in 1..Len(ord) |-> a.data[CHOOSE i \in sel : Pos(a.shape, i) = ord[k]]]

\* out[src > 0] = src[src > 0] is legal: the boolean index fits out and the
\* 1-D value of k elements broadcasts to the indexing result, whose shape is
\* (k,) followed by the axes of out the mask does not cover.
OverlayOK(out, src) ==
  /\ MaskIndexOK(out.shape, src.shape)
  /\ \/ Len(src.shape) = Len(out.shape)
     \/ LET k == Len(Selected(src))
        IN k = out.shape[2] \/ k = 1

\* out[src > 0] = src[src > 0]
Overlay(out, src) ==
  IF Len(src.shape) = Len(out.shape)
  THEN [shape |-> out.shape,
        data |-> [i \in Indices(out.shape) |->
                   IF src.data[i] > 0 THEN src.data[i] ELSE out.data[i]]]
  ELSE LET vals == Selected(src)
       IN [shape |-> out.shape,
           data |-> [i \in Indices(out.shape) |->
                      IF src.data[<<i[1]>>] > 0
                      THEN (IF Len(vals) = 1 THEN vals[1] ELSE vals[i[2]])
                      ELSE out.data[i]]]

-----------------------------------------------------------------------------
(* stitch_thomas_into_aparc                                                *)

\* np.unique(vol[vol > 0])
Unique(vol) == {vol.data[i] : i \in {j \in Indices(vol.shape) : vol.data[j] > 0}}

\* enumerate(...) counting from 0 instead of 1.
BuildRemapFromZero(vol, offset) ==
  LET s == SortedSeq(Unique(vol))
  IN [v \in Unique(vol) |-> offset + (CHOOSE i \in 1..Len(s) : s[i] = v) - 1]

\* The offset left out of the new id.
BuildRemapNoOffset(vol, offset) ==
  LET s == SortedSeq(Unique(vol))
  IN [v \in Unique(vol) |-> CHOOSE i \in 1..Len(s) : s[i] = v]

\* for i, v in enumerate(sorted(l_unique), 1): left_map[int(v)] = int(offset + i)
BuildRemap(vol, offset) ==
  LET s == SortedSeq(Unique(vol))
  IN [v \in Unique(vol) |-> offset + (CHOOSE i \in 1..Len(s) : s[i] = v)]

\* l_re = np.zeros_like(left); for v, nv in left_map.items(): l_re[left == v] = nv
ApplyRemap(vol, map) ==
  [shape |-> vol.shape,
   data |-> [i \in Indices(vol.shape) |->
              IF vol.data[i] \in DOMAIN map THEN map[vol.data[i]] ELSE 0]]

\* The right volume overlaid first, so that the left one wins an overlap.
OverlayBothLeftLast(out, left, right) == Overlay(Overlay(out, right), left)

\* out[left > 0] = left[left > 0]; out[right > 0] = right[right > 0]
OverlayBoth(out, left, right) == Overlay(Overlay(out, left), right)

\* The whole function: the value it returns, the volume it saves, or the
\* numpy error that ends it before nib.save.
stitch_thomas_into_aparc(data, left, right, keep, loff, roff) ==
  LET failed == [raised |-> TRUE, out |-> NoFile,
                 left_map |-> EmptyMap, right_map |-> EmptyMap]
  IN
  IF ~BroadcastOK(left.shape, right.shape) THEN failed
  ELSE
  LET th_mask == BOr(Gt0(left), Gt0(right)) IN
  IF ~MaskIndexOK(data.shape, th_mask.shape) THEN failed
  ELSE
  LET out0 == SetMaskedZero(data, th_mask)
      lmap == IF keep /\ Unique(left) # {} THEN BuildRemap(left, loff) ELSE EmptyMap
      rmap == IF keep /\ Unique(right) # {} THEN BuildRemap(right, roff) ELSE EmptyMap
      left2 == IF keep /\ Unique(left) # {} THEN ApplyRemap(left, lmap) ELSE left
      right2 == IF keep /\ Unique(right) # {} THEN ApplyRemap(right, rmap) ELSE right
  IN
  IF ~(OverlayOK(out0, left2) /\ OverlayOK(out0, right2)) THEN failed
  ELSE [raised |-> FALSE, out |-> OverlayBoth(out0, left2, right2),
        left_map |-> lmap, right_map |-> rmap]

-----------------------------------------------------------------------------
(* Label table of the atlas build.                                         *)

Row(id, name, hemi, source) ==
  [id |-> id, name |-> name, hemi |-> hemi, source |-> source]

\* Rows of one annotation file, as read_annot returns it:
\*   kind   "table"    ctab is an (n, >=5) array; ids is its 5th column
\*          "notable"  ctab is None; labels holds np.unique(labels)
\*          "badctab"  ctab has an unexpected shape (RuntimeError)
\*          "unreadable" read_annot raises
AnnotRows(hemi, annot) ==
  IF annot.kind = "notable"
  THEN LET label_ids == SortedSeq(annot.labels)
       IN [k \in 1..Len(label_ids) |->
            Row(label_ids[k],
                IF Len(annot.names) = Len(label_ids)
                THEN annot.names[k]
                ELSE "label_" \o ToString(label_ids[k]),
                hemi, "HCP-MMP1")]
  ELSE LET n == IF Len(annot.ids) < Len(annot.names)
                THEN Len(annot.ids) ELSE Len(annot.names)
       IN [k \in 1..n |-> Row(annot.ids[k], annot.names[k], hemi, "HCP-MMP1")]

make_hcp_rows_from_annots(lh, rh) ==
  IF \E a \in {lh, rh} : a.kind \in {"badctab", "unreadable"}
  THEN [raised |-> TRUE, rows |-> <<>>]
  ELSE [raised |-> FALSE, rows |-> AnnotRows("L", lh) \o AnnotRows("R", rh)]

\* thomas_value_to_name_map: names from the per-nucleus file names, then
\* overwritten by those of MV/nucleiVols.txt.
thomas_value_to_name_map(root) ==
  [v \in DOMAIN root.files \cup DOMAIN root.nucleiVols |->
     IF v \in DOMAIN root.nucleiVols THEN root.nucleiVols[v] ELSE root.files[v]]

\* Rows only for the ids that have a name.
MapRowsNamedOnly(map, names, hemi) ==
  LET keys == SortedSeq(DOMAIN map \cap DOMAIN names)
  IN [k \in 1..Len(keys) |-> Row(map[keys[k]], names[keys[k]], hemi, "THOMAS")]

\* for orig, new in sorted(map.items()): one row per pair
MapRows(map, names, hemi) ==
  LET keys == SortedSeq(DOMAIN map)
  IN [k \in 1..Len(keys) |->
       Row(map[keys[k]],
           IF keys[k] \in DOMAIN names
           THEN names[keys[k]]
           ELSE "THOMAS_" \o ToString(keys[k]),
           hemi, "THOMAS")]

make_thomas_rows_from_maps(lmap, rmap, lnames, rnames) ==
  MapRows(lmap, lnames, "L") \o MapRows(rmap, rnames, "R")

\* write_tsv: the header line, then one line per row, in the order given
write_tsv(rows) == [rows |-> rows]

-----------------------------------------------------------------------------
(* Name normalization of tidy_LUTS_qsirecon.py.  A string is a sequence of *)
(* one-character strings.                                                  *)

Lower ==
  [c \in {"A", "C", "D", "E", "F", "G", "H", "I", "L", "O", "P", "R", "T", "V",
          "X"} |->
     CASE c = "A" -> "a" [] c = "C" -> "c" [] c = "D" -> "d" [] c = "E" -> "e"
       [] c = "F" -> "f" [] c = "G" -> "g" [] c = "H" -> "h" [] c = "I" -> "i"
       [] c = "L" -> "l" [] c = "O" -> "o" [] c = "P" -> "p" [] c = "R" -> "r"
       [] c = "T" -> "t" [] c = "V" -> "v" [] c = "X" -> "x"]

\* str.lower / str.upper of one character
LowerChar(c) == IF c \in DOMAIN Lower THEN Lower[c] ELSE c
UpperChar(c) ==
  IF \E u \in DOMAIN Lower : Lower[u] = c
  THEN CHOOSE u \in DOMAIN Lower : Lower[u] = c
  ELSE c

\* The class [_\- ]
IsSep(c) == c \in {"_", "-", " "}

\* re: ^lit under IGNORECASE, lit given in lower case
StartsWithCI(s, lit) ==
  /\ Len(s) >= Len(lit)
  /\ \A i \in 1..Len(lit) : LowerChar(s[i]) = lit[i]

\* re: ^lit[_\- ] under IGNORECASE
StartsWithSepCI(s, lit) ==
  /\ StartsWithCI(s, lit)
  /\ Len(s) > Len(lit)
  /\ IsSep(s[Len(lit) + 1])

\* re: lit$ under IGNORECASE
EndsWithCI(s, lit) ==
  /\ Len(s) >= Len(lit)
  /\ \A i \in 1..Len(lit) : LowerChar(s[Len(s) - Len(lit) + i]) = lit[i]

Drop(s, n) == SubSeq(s, n + 1, Len(s))

\* LEFT_PATTERNS / RIGHT_PATTERNS, as lower-case literals; the fourth of
\* each is the one pattern without a trailing separator class.
LEFT_PATTERNS == << <<"l">>, <<"l", "e", "f", "t">>, <<"l", "h">>,
                    <<"c", "t", "x", "-", "l", "h", "-">>, <<"l", "h">> >>
RIGHT_PATTERNS == << <<"r">>, <<"r", "i", "g", "h", "t">>, <<"r", "h">>,
                     <<"c", "t", "x", "-", "r", "h", "-">>, <<"r", "h">> >>

MatchesAny(patterns, name) ==
  \E k \in DOMAIN patterns :
    IF k = 4 THEN StartsWithCI(name, patterns[k])
             ELSE StartsWithSepCI(name, patterns[k])

None == "None"

detect_hemi(name) ==
  IF MatchesAny(LEFT_PATTERNS, name) THEN "L"
  ELSE IF MatchesAny(RIGHT_PATTERNS, name) THEN "R"
  ELSE None

\* re.sub(r"^(ctx\-lh\-|ctx\-rh\-)", "", name)
StripCtx(name) ==
  IF \/ StartsWithCI(name, <<"c", "t", "x", "-", "l", "h", "-">>)
     \/ StartsWithCI(name, <<"c", "t", "x", "-", "r", "h", "-">>)
  THEN Drop(name, 7) ELSE name

\* re.sub(r"^(lh|rh)[_\- ]", "", name)
StripLhRh(name) ==
  IF StartsWithSepCI(name, <<"l", "h">>) \/ StartsWithSepCI(name, <<"r", "h">>)
  THEN Drop(name, 3) ELSE name

\* re.sub(r"^(L|R|Left|Right|LH|RH)[_\- ]", "", name): the alternatives
\* are tried in this order
SideWords == << <<"l">>, <<"r">>, <<"l", "e", "f", "t">>,
                <<"r", "i", "g", "h", "t">>, <<"l", "h">>, <<"r", "h">> >>

StripSideWord(name) ==
  LET hits == {k \in DOMAIN SideWords : StartsWithSepCI(name, SideWords[k])}
  IN IF hits = {} THEN name ELSE Drop(name, Len(SideWords[Min(hits)]) + 1)

\* re.sub(r"(_ROI)$", "", name)
StripRoi(name) ==
  IF EndsWithCI(name, <<"_", "r", "o", "i">>)
  THEN SubSeq(name, 1, Len(name) - 4) ELSE name

strip_hemi_prefix(name) == StripRoi(StripSideWord(StripLhRh(StripCtx(name))))

\* str.strip(): leading and trailing white space removed
RECURSIVE LStrip(_)
LStrip(s) == IF Len(s) > 0 /\ s[1] = " " THEN LStrip(Tail(s)) ELSE s
RECURSIVE RStrip(_)
RStrip(s) ==
  IF Len(s) > 0 /\ s[Len(s)] = " " THEN RStrip(SubSeq(s, 1, Len(s) - 1)) ELSE s
Strip(s) == RStrip(LStrip(s))

normalized_lr(name) ==
  [hemi |-> detect_hemi(name), base |-> Strip(strip_hemi_prefix(name))]

-----------------------------------------------------------------------------
(* tidy_LUTS_qsirecon.py: the loaders.                                     *)

\* A voxel value v of the dseg is held as the integer 2 * v, so that halves
\* (0.5, 2.5) are values of the model.  astype(int) truncates.
AsInt(h) == h \div 2

\* vals = np.unique(data[data > 0]).astype(int); return set(...)
load_present_ids(img) ==
  {AsInt(img.data[i]) : i \in {j \in Indices(img.shape) : img.data[j] > 0}}

\* The hemisphere left out of the label.
LabelBaseOnly(hemi, base) == base

\* f"{hemi}-{base}" if a hemisphere was detected, else base
Label(hemi, base) == IF hemi \in {"L", "R"} THEN <<hemi, "-">> \o base ELSE base

\* One line of the HCP LUT after strip() and re.split(r"\s+"):
\*   kind  "empty" | "comment" | "fields"
\*   intok whether int(parts[0]) succeeds, idx its value
\*   rest  parts[1:]
RECURSIVE LoadHcpLines(_, _)
LoadHcpLines(lines, mapping) ==
  IF lines = <<>> THEN mapping
  ELSE LET line == Head(lines)
           skip == \/ line.kind # "fields"
                   \/ ~line.intok
                   \/ Len(line.rest) = 0
           nl == normalized_lr(line.rest[1])
           entry == [label |-> Label(nl.hemi, nl.base), source |-> "HCP-MMP1"]
       IN LoadHcpLines(Tail(lines),
                       IF skip THEN mapping
                       ELSE [i \in DOMAIN mapping \cup {line.idx} |->
                              IF i = line.idx THEN entry ELSE mapping[i]])

\* The load given up, with nothing read, when a line is not
\* "<int> <name> ...".
LoadHcpStrict(lines) ==
  IF \E k \in DOMAIN lines :
       lines[k].kind # "fields" \/ ~lines[k].intok \/ Len(lines[k].rest) = 0
  THEN EmptyMap
  ELSE LoadHcpLines(lines, EmptyMap)

load_hcp_lut(lines) == LoadHcpLines(lines, EmptyMap)

\* Column headers of the THOMAS table: c.lower(), and "hemi" in c.lower()
HeaderLower(c) ==
  CASE c \in {"id", "ID"} -> "id"
    [] c \in {"index", "Index"} -> "index"
    [] c \in {"name", "Name"} -> "name"
    [] c \in {"label", "Label"} -> "label"
    [] c \in {"hemi", "Hemi"} -> "hemi"
    [] c \in {"hemisphere", "Hemisphere"} -> "hemisphere"
    [] c \in {"label_id", "Label_ID"} -> "label_id"
    [] OTHER -> c

HeaderHasHemi(c) == HeaderLower(c) \in {"hemi", "hemisphere"}

IsIdHeader(c) == HeaderLower(c) \in {"id", "index", "label_id"}
IsNameHeader(c) == HeaderLower(c) \in {"name", "label"}

\* next((c for c in df.columns if ...), None): the position of the first
\* column among hits, 0 for None
FirstColumn(hits) == IF hits = {} THEN 0 ELSE Min(hits)

\* A cell of the table: na (pd.isna), intok (int(cell) succeeds) with its
\* value n, and text = str(cell).
\* hemi of a row: the column's first letter when it is L or R, else None;
\* "error" when the stripped text is empty (indexing [0] raises IndexError).
ColumnHemi(cell) ==
  LET t == Strip(cell.text)
  IN IF t = <<>> THEN "error"
     ELSE IF UpperChar(t[1]) \in {"L", "R"} THEN UpperChar(t[1]) ELSE None

RECURSIVE LoadThomasRows(_, _, _, _, _)
LoadThomasRows(rows, col_id, col_name, col_hemi, acc) ==
  IF rows = <<>> \/ acc.raised THEN acc
  ELSE LET row == Head(rows)
           useCol == col_hemi # 0 /\ ~row[col_hemi].na
           colHemi == IF useCol THEN ColumnHemi(row[col_hemi]) ELSE None
           raw_name == row[col_name].text
           hemi == IF colHemi = None THEN detect_hemi(raw_name) ELSE colHemi
           entry == [label |-> Label(hemi, strip_hemi_prefix(raw_name)),
                     source |-> "THOMAS"]
           idx == row[col_id].n
       IN LoadThomasRows(Tail(rows), col_id, col_name, col_hemi,
            IF ~row[col_id].intok THEN acc
            ELSE IF colHemi = "error"
            THEN [raised |-> TRUE, error |-> "IndexError", mapping |-> EmptyMap]
            ELSE [raised |-> FALSE, error |-> "none",
                  mapping |-> [i \in DOMAIN acc.mapping \cup {idx} |->
                                IF i = idx THEN entry ELSE acc.mapping[i]]])

\* The id and name columns not looked for: no row can be read, none is.
LoadThomasNoSchemaCheck(table) ==
  [raised |-> FALSE, error |-> "none", mapping |-> EmptyMap]

\* Returns the mapping, or raises: ValueError when the id or the name column
\* is not found, IndexError from a row whose hemisphere text is empty.
load_thomas_lut(table) ==
  LET cols == table.columns
      col_id == FirstColumn({k \in DOMAIN cols : IsIdHeader(cols[k])})
      col_name == FirstColumn({k \in DOMAIN cols : IsNameHeader(cols[k])})
      col_hemi == FirstColumn({k \in DOMAIN cols : HeaderHasHemi(cols[k])})
  IN IF col_id = 0 \/ col_name = 0
     THEN [raised |-> TRUE, error |-> "ValueError", mapping |-> EmptyMap]
     ELSE LoadThomasRows(table.rows, col_id, col_name, col_hemi,
                         [raised |-> FALSE, error |-> "none",
                          mapping |-> EmptyMap])

\* str(idx) for idx >= 0
DigitChar == <<"0", "1", "2", "3", "4", "5", "6", "7", "8", "9">>
RECURSIVE Digits(_)
Digits(n) ==
  IF n < 10 THEN <<DigitChar[n + 1]>>
  ELSE Digits(n \div 10) \o <<DigitChar[(n % 10) + 1]>>

\* The THOMAS table looked up before the HCP table.
LookupThomasFirst(idx, hmap, tmap) ==
  IF idx \in DOMAIN tmap THEN tmap[idx]
  ELSE IF idx \in DOMAIN hmap THEN hmap[idx]
  ELSE [label |-> <<"U", "n", "k", "n", "o", "w", "n", "-">> \o Digits(idx),
        source |-> "Unknown"]

\* if idx in hcp_map ... elif idx in thomas_map ... else Unknown-{idx}
Lookup(idx, hmap, tmap) ==
  IF idx \in DOMAIN hmap THEN hmap[idx]
  ELSE IF idx \in DOMAIN tmap THEN tmap[idx]
  ELSE [label |-> <<"U", "n", "k", "n", "o", "w", "n", "-">> \o Digits(idx),
        source |-> "Unknown"]

\* for idx in sorted(present): rows.append({index, label, source})
TidyRows(pres, hmap, tmap) ==
  LET ids == SortedSeq(pres)
  IN [k \in 1..Len(ids) |->
       [index |-> ids[k],
        label |-> Lookup(ids[k], hmap, tmap).label,
        source |-> Lookup(ids[k], hmap, tmap).source]]

-----------------------------------------------------------------------------
(* Inputs of the atlas build, drawn from bounded sets.                     *)

MainShape == <<NVox>>

\* Label values of the HCP volume and of the THOMAS volumes.
PrimaryVals == {0, 2, LeftOffsetDefault + 1}
ThomasVals == {0, 2, 5}

PrimaryVolumes ==
  Arrays(MainShape, PrimaryVals) \cup Arrays(<<NVox, 1>>, {0, 2})
ThomasVolumes ==
  Arrays(MainShape, ThomasVals) \cup Arrays(<<1>>, {0, 2})
    \cup Arrays(<<NVox + 1>>, {0})

OffsetPairs == {<<LeftOffsetDefault, RightOffsetDefault>>, <<0, 1>>}

Annot(kind, ids, labels, names) ==
  [kind |-> kind, ids |-> ids, labels |-> labels, names |-> names]

AnnotPairs ==
  << <<Annot("table", <<0, 1>>, {0, 1}, <<"unknown", "V1">>),
      Annot("table", <<0, 3>>, {0, 3}, <<"unknown", "V2">>)>>,
    <<Annot("table", <<1>>, {1}, <<"V1">>),
      Annot("table", <<3, 4>>, {3}, <<"V2">>)>>,
    <<Annot("notable", <<>>, {1, 4}, <<"V1">>),
      Annot("notable", <<>>, {3}, <<"V2">>)>>,
    <<Annot("table", <<1>>, {1}, <<"V1">>),
      Annot("badctab", <<>>, {}, <<>>)>> >>

\* The THOMAS root directories: names found in the per-nucleus file names
\* (files) and in MV/nucleiVols.txt, per label value.
ThomasRootPairs ==
  << <<[files |-> (2 :> "AV"), nucleiVols |-> (2 :> "VA")],
      [files |-> EmptyMap, nucleiVols |-> EmptyMap]>>,
    <<[files |-> (2 :> "AV" @@ 5 :> "VLP"), nucleiVols |-> EmptyMap],
      [files |-> (5 :> "VLP"), nucleiVols |-> EmptyMap]>> >>

\* What step 4 reads: a pair of annotation files with a pair of THOMAS
\* directories.
TsvInputs ==
  {<<AnnotPairs[k], ThomasRootPairs[((k - 1) % Len(ThomasRootPairs)) + 1]>> :
     k \in DOMAIN AnnotPairs}

-----------------------------------------------------------------------------
(* The external commands of the atlas build: the executable and the        *)
(* argument list given to run().                                           *)

Cmd(exe, args) == [exe |-> exe, args |-> args]

\* make_hcp_vol_aparc: mri_surf2surf for lh and rh, then mri_aparc2aseg
make_hcp_vol_aparc_cmds ==
  << Cmd("mri_surf2surf",
         <<"--hemi", "lh", "--srcsubject", "fsaverage", "--trgsubject", "subj",
           "--sval-annot", "fsaverage/lh.HCP-MMP1.annot",
           "--tval", "label/lh.HCP-MMP1.annot">>),
     Cmd("mri_surf2surf",
         <<"--hemi", "rh", "--srcsubject", "fsaverage", "--trgsubject", "subj",
           "--sval-annot", "fsaverage/rh.HCP-MMP1.annot",
           "--tval", "label/rh.HCP-MMP1.annot">>),
     Cmd("mri_aparc2aseg",
         <<"--s", "subj", "--annot", "HCP-MMP1",
           "--o", "aparc_HCP-MMP1.mgz", "--volmask">>) >>

\* fsrun(fs_home, "mri_vol2vol", ["--mov", lbl, "--targ", fs_t1_mgz,
\*                                "--o", out, "--lta", lta, "--nearest"])
Vol2VolThomas(lbl, out, lta) ==
  Cmd("mri_vol2vol",
      <<"--mov", lbl, "--targ", "T1.mgz", "--o", out, "--lta", lta,
        "--nearest">>)

\* thomas_to_fs_with_coreg: mri_coreg and mri_vol2vol for the left side,
\* then for the right side
thomas_to_fs_with_coreg_cmds ==
  << Cmd("mri_coreg",
         <<"--mov", "left/files/crop_wmnull.nii.gz", "--ref", "T1.mgz",
           "--lta", "thomas_left_in_FS.lta">>),
     Vol2VolThomas("left/files/thomas.nii.gz", "thomas_left_in_FS.mgz",
                   "thomas_left_in_FS.lta"),
     Cmd("mri_coreg",
         <<"--mov", "right/files/crop_wmnull.nii.gz", "--ref", "T1.mgz",
           "--lta", "thomas_right_in_FS.lta">>),
     Vol2VolThomas("right/files/thomasr.nii.gz", "thomas_right_in_FS.mgz",
                   "thomas_right_in_FS.lta") >>

\* The commands issued up to and including the k-th of a list.
Issued(all, k) == SubSeq(all, 1, k)

-----------------------------------------------------------------------------
(* main() of build_custom_hcp_thomas.py, one action per numbered step.     *)

BuildIdleFiles ==
  /\ pc = "idle"
  /\ keep_hcp_ids = FALSE
  /\ left_offset = 0
  /\ right_offset = 0
  /\ hcp_vol = NoFile
  /\ lh_annot = NoFile
  /\ rh_annot = NoFile
  /\ thomas_left_in_fs = NoFile
  /\ thomas_right_in_fs = NoFile
  /\ merged = NoFile
  /\ left_map = EmptyMap
  /\ right_map = EmptyMap
  /\ l_names = EmptyMap
  /\ r_names = EmptyMap
  /\ labels_tsv = NoFile
  /\ manifest = NoFile

\* main() of the atlas build is not run.
BuildIdle == BuildIdleFiles /\ cmds = <<>>

\* main() of the atlas build has run to its end in an earlier process:
\* what is kept of it is the commands it issued.
BuildRan ==
  /\ BuildIdleFiles
  /\ cmds = make_hcp_vol_aparc_cmds \o thomas_to_fs_with_coreg_cmds

BuildInit ==
  /\ pc = "start"
  /\ keep_hcp_ids \in BOOLEAN
  \* the offsets are read only under --keep-hcp-ids; without it they are
  \* taken at their defaults
  /\ \E o \in OffsetPairs :
       /\ left_offset = o[1]
       /\ right_offset = o[2]
       /\ ~keep_hcp_ids => o = <<LeftOffsetDefault, RightOffsetDefault>>
  /\ hcp_vol = NoFile
  /\ lh_annot = NoFile
  /\ rh_annot = NoFile
  /\ thomas_left_in_fs = NoFile
  /\ thomas_right_in_fs = NoFile
  /\ merged = NoFile
  /\ left_map = EmptyMap
  /\ right_map = EmptyMap
  /\ l_names = EmptyMap
  /\ r_names = EmptyMap
  /\ labels_tsv = NoFile
  /\ manifest = NoFile
  /\ cmds = <<>>

\* 1) make_hcp_vol_aparc: the T1 and annot checks, mri_surf2surf twice,
\*    mri_aparc2aseg.  A missing input raises before any command, a
\*    failing command raises after it was issued.
MakeHcpVolAparc ==
  /\ pc = "start"
  /\ \/ /\ pc' = "failed"
        /\ \E k \in 0..Len(make_hcp_vol_aparc_cmds) :
             cmds' = cmds \o Issued(make_hcp_vol_aparc_cmds, k)
        /\ UNCHANGED hcp_vol
     \/ /\ pc' = "hcp"
        /\ cmds' = cmds \o make_hcp_vol_aparc_cmds
        /\ hcp_vol' \in PrimaryVolumes
  /\ UNCHANGED <<keep_hcp_ids, left_offset, right_offset, thomas_left_in_fs,
                 thomas_right_in_fs, merged, left_map, right_map, l_names,
                 r_names, labels_tsv, manifest, lh_annot, rh_annot>>
  /\ UNCHANGED <<tidyVars, normVars, warpVars, sidecarVars>>

\* 2) thomas_to_fs_with_coreg: left mri_coreg + mri_vol2vol, then right.
ThomasToFsWithCoreg ==
  /\ pc = "hcp"
  /\ \/ /\ pc' = "failed"
        /\ \E k \in 0..2 : cmds' = cmds \o Issued(thomas_to_fs_with_coreg_cmds, k)
        /\ UNCHANGED <<thomas_left_in_fs, thomas_right_in_fs>>
     \/ /\ pc' = "failed"
        /\ \E k \in 2..4 : cmds' = cmds \o Issued(thomas_to_fs_with_coreg_cmds, k)
        /\ thomas_left_in_fs' \in ThomasVolumes
        /\ UNCHANGED thomas_right_in_fs
     \/ /\ pc' = "thomas"
        /\ cmds' = cmds \o thomas_to_fs_with_coreg_cmds
        /\ thomas_left_in_fs' \in ThomasVolumes
        /\ thomas_right_in_fs' \in ThomasVolumes
  /\ UNCHANGED <<keep_hcp_ids, left_offset, right_offset, hcp_vol, lh_annot,
                 rh_annot, merged, left_map, right_map, l_names, r_names,
                 labels_tsv, manifest>>
  /\ UNCHANGED <<tidyVars, normVars, warpVars, sidecarVars>>

\* A main() that carries on after a failed stitch: what main() does not do.
StitchFailureIgnored ==
  /\ pc = "thomas"
  /\ LET r == stitch_thomas_into_aparc(hcp_vol, thomas_left_in_fs,
                                       thomas_right_in_fs, keep_hcp_ids,
                                       left_offset, right_offset)
     IN IF r.raised
        THEN /\ pc' = "stitched"
             /\ UNCHANGED <<merged, left_map, right_map>>
        ELSE /\ pc' = "stitched"
             /\ merged' = r.out
             /\ left_map' = r.left_map
             /\ right_map' = r.right_map
  /\ UNCHANGED <<keep_hcp_ids, left_offset, right_offset, hcp_vol, lh_annot,
                 rh_annot, thomas_left_in_fs, thomas_right_in_fs, l_names,
                 r_names, labels_tsv, manifest, cmds>>
  /\ UNCHANGED <<tidyVars, normVars, warpVars, sidecarVars>>

\* 3) stitch_thomas_into_aparc, which saves the merged volume itself.
Stitch ==
  /\ pc = "thomas"
  /\ LET r == stitch_thomas_into_aparc(hcp_vol, thomas_left_in_fs,
                                       thomas_right_in_fs, keep_hcp_ids,
                                       left_offset, right_offset)
     IN IF r.raised
        THEN /\ pc' = "failed"
             /\ UNCHANGED <<merged, left_map, right_map>>
        ELSE /\ pc' = "stitched"
             /\ merged' = r.out
             /\ left_map' = r.left_map
             /\ right_map' = r.right_map
  /\ UNCHANGED <<keep_hcp_ids, left_offset, right_offset, hcp_vol, lh_annot,
                 rh_annot, thomas_left_in_fs, thomas_right_in_fs, l_names,
                 r_names, labels_tsv, manifest, cmds>>
  /\ UNCHANGED <<tidyVars, normVars, warpVars, sidecarVars>>

\* 4) make_hcp_rows_from_annots + make_thomas_rows_from_maps + write_tsv.
\*    The annotation files and the THOMAS directories are read here.
BuildTsv ==
  /\ pc = "stitched"
  /\ \E inp \in TsvInputs :
       LET a == inp[1]
           roots == inp[2]
           h == make_hcp_rows_from_annots(a[1], a[2])
       IN /\ lh_annot' = a[1]
          /\ rh_annot' = a[2]
          /\ IF h.raised
             THEN /\ pc' = "failed"
                  /\ UNCHANGED <<l_names, r_names, labels_tsv>>
             ELSE /\ l_names' = thomas_value_to_name_map(roots[1])
                  /\ r_names' = thomas_value_to_name_map(roots[2])
                  /\ labels_tsv' = write_tsv(
                       h.rows \o make_thomas_rows_from_maps(
                                  left_map, right_map, l_names', r_names'))
                  /\ pc' = "tsv"
  /\ UNCHANGED <<keep_hcp_ids, left_offset, right_offset, hcp_vol,
                 thomas_left_in_fs, thomas_right_in_fs, merged,
                 left_map, right_map, manifest, cmds>>
  /\ UNCHANGED <<tidyVars, normVars, warpVars, sidecarVars>>

\* 5) the manifest
WriteManifest ==
  /\ pc = "tsv"
  /\ manifest' = [merged_hcp_thomas |-> "aparc_HCPMMP1_plus_THOMAS.mgz",
                  labels_tsv |-> "atlas_labels.tsv"]
  /\ pc' = "done"
  /\ UNCHANGED <<keep_hcp_ids, left_offset, right_offset, hcp_vol, lh_annot,
                 rh_annot, thomas_left_in_fs, thomas_right_in_fs, merged,
                 left_map, right_map, l_names, r_names, labels_tsv, cmds>>
  /\ UNCHANGED <<tidyVars, normVars, warpVars, sidecarVars>>

BuildNext ==
  \/ MakeHcpVolAparc
  \/ ThomasToFsWithCoreg
  \/ Stitch
  \/ BuildTsv
  \/ WriteManifest

-----------------------------------------------------------------------------
(* Inputs of the tidy-LUT step, drawn from bounded sets.                   *)

\* Most lines of a LUT file, rows of a table.
MaxLines == 2

SeqsUpTo(S, n) == UNION {[1..k -> S] : k \in 0..n}

\* Voxel values of the dseg, doubled: 0, 0.5, 1
DsegVals == {0, 1, 2}
DsegVolumes == Arrays(<<NVox>>, DsegVals)

Line(kind, intok, idx, rest) ==
  [kind |-> kind, intok |-> intok, idx |-> idx, rest |-> rest]

HcpLineChoices ==
  { Line("comment", FALSE, 0, <<>>),
    Line("fields", TRUE, 1, << <<"L", "_", "V", "1", "_", "R", "O", "I">> >>),
    Line("fields", TRUE, 2, << <<"c", "t", "x", "-", "r", "h", "-", "V", "1">>,
                               <<"x">> >>),
    Line("fields", TRUE, 1, << <<"V", "1">> >>),
    Line("fields", FALSE, 0, << <<"V", "1">> >>),
    Line("fields", TRUE, 2, <<>>),
    Line("fields", TRUE, 12,
         << <<"c", "t", "x", "-", "l", "h", "-", "p", "r", "e", "c", "e",
              "n", "t", "r", "a", "l">> >>) }

HcpLutFiles == {[lines |-> ls] : ls \in SeqsUpTo(HcpLineChoices, MaxLines)}

Cell(na, intok, n, text) == [na |-> na, intok |-> intok, n |-> n, text |-> text]
IdCell(n) == Cell(FALSE, TRUE, n, Digits(n))
TextCell(t) == Cell(FALSE, FALSE, 0, t)
NaCell == Cell(TRUE, FALSE, 0, <<"n", "a", "n">>)

ThomasTables ==
  { [columns |-> <<"id", "name">>,
     rows |-> << <<IdCell(2), TextCell(<<"R", "i", "g", "h", "t", "-", "A", "V">>)>>,
                 <<IdCell(3), TextCell(<<"V", "L", "P">>)>> >>],
    [columns |-> <<"Index", "Label", "Hemisphere">>,
     rows |-> << <<IdCell(1), TextCell(<<"L", "_", "A", "V">>),
                   TextCell(<<"r", "i", "g", "h", "t">>)>>,
                 <<IdCell(2), TextCell(<<"A", "V">>), NaCell>>,
                 <<TextCell(<<"x">>), TextCell(<<"A", "V">>), TextCell(<<"L">>)>> >>],
    [columns |-> <<"name", "hemi">>,
     rows |-> << <<TextCell(<<"A", "V">>), TextCell(<<"L">>)>> >>],
    [columns |-> <<"ID", "Name", "hemi">>,
     rows |-> << <<IdCell(2), TextCell(<<"A", "V">>), TextCell(<<" ">>)>> >>],
    [columns |-> <<"Label_ID", "hemi">>,
     rows |-> << <<IdCell(1), TextCell(<<"R">>)>> >>],
    [columns |-> <<"id", "label", "hemi">>,
     rows |-> << <<IdCell(1), TextCell(<<"L", "e", "f", "t", "-", "A", "V">>),
                   TextCell(<<"x">>)>> >>] }

-----------------------------------------------------------------------------
(* main() of tidy_LUTS_qsirecon.py.                                        *)

TidyIdle ==
  /\ t_pc = "idle"
  /\ dseg = NoFile
  /\ hcp_lut = NoFile
  /\ thomas_lut = NoFile
  /\ present = {}
  /\ hcp_map = EmptyMap
  /\ thomas_map = EmptyMap
  /\ out_tsv = NoFile
  /\ t_error = "none"

TidyInit ==
  /\ t_pc = "start"
  /\ dseg \in DsegVolumes \cup {NoFile}
  /\ hcp_lut \in HcpLutFiles \cup {NoFile}
  /\ thomas_lut \in ThomasTables \cup {NoFile}
  /\ present = {}
  /\ hcp_map = EmptyMap
  /\ thomas_map = EmptyMap
  /\ out_tsv = NoFile
  /\ t_error = "none"

\* The three exists() checks, each ending the run with sys.exit
TidyCheckArgs ==
  /\ t_pc = "start"
  /\ t_pc' = IF dseg = NoFile \/ hcp_lut = NoFile \/ thomas_lut = NoFile
             THEN "exit" ELSE "checked"
  /\ UNCHANGED <<dseg, hcp_lut, thomas_lut, present, hcp_map, thomas_map,
                 out_tsv, t_error>>
  /\ UNCHANGED <<buildVars, normVars, warpVars, sidecarVars>>

\* load_present_ids, load_hcp_lut, load_thomas_lut
TidyLoad ==
  /\ t_pc = "checked"
  /\ present' = load_present_ids(dseg)
  /\ hcp_map' = load_hcp_lut(hcp_lut.lines)
  /\ LET t == load_thomas_lut(thomas_lut)
     IN /\ thomas_map' = t.mapping
        /\ t_error' = t.error
        /\ t_pc' = IF t.raised THEN "failed" ELSE "loaded"
  /\ UNCHANGED <<dseg, hcp_lut, thomas_lut, out_tsv>>
  /\ UNCHANGED <<buildVars, normVars, warpVars, sidecarVars>>

\* The rows, the DataFrame, to_csv
TidyWrite ==
  /\ t_pc = "loaded"
  /\ out_tsv' = [rows |-> TidyRows(present, hcp_map, thomas_map)]
  /\ t_pc' = "done"
  /\ UNCHANGED <<dseg, hcp_lut, thomas_lut, present, hcp_map, thomas_map,
                 t_error>>
  /\ UNCHANGED <<buildVars, normVars, warpVars, sidecarVars>>

TidyNext ==
  \/ TidyCheckArgs
  \/ TidyLoad
  \/ TidyWrite

-----------------------------------------------------------------------------
(* normalized_lr applied to a name, and again to the base name it gave.    *)

\* Most tokens a name is made of.
MaxTokens == 3

NameTokens ==
  { <<"L", "_">>, <<"l", "h", "-">>, <<"R", "i", "g", "h", "t", " ">>,
    <<"c", "t", "x", "-", "r", "h", "-">>, <<" ">>, <<"_", "R", "O", "I">>,
    <<"V", "1">>, <<"R">> }

RECURSIVE Concat(_)
Concat(ss) == IF ss = <<>> THEN <<>> ELSE Head(ss) \o Concat(Tail(ss))

Names == {Concat(ts) : ts \in SeqsUpTo(NameTokens, MaxTokens)}

NoResult == [hemi |-> None, base |-> <<>>]

NormIdle ==
  /\ n_pc = "idle"
  /\ n_name = <<>>
  /\ n_first = NoResult
  /\ n_second = NoResult

NormInit ==
  /\ n_pc = "start"
  /\ n_name \in Names
  /\ n_first = NoResult
  /\ n_second = NoResult

Normalize ==
  /\ n_pc = "start"
  /\ n_first' = normalized_lr(n_name)
  /\ n_pc' = "once"
  /\ UNCHANGED <<n_name, n_second>>
  /\ UNCHANGED <<buildVars, tidyVars, warpVars, sidecarVars>>

Renormalize ==
  /\ n_pc = "once"
  /\ n_second' = normalized_lr(n_first.base)
  /\ n_pc' = "twice"
  /\ UNCHANGED <<n_name, n_first>>
  /\ UNCHANGED <<buildVars, tidyVars, warpVars, sidecarVars>>

NormNext ==
  \/ Normalize
  \/ Renormalize

-----------------------------------------------------------------------------
(* main() of warp_parc_to_acpc_and_mni.py.                                 *)

Executables == {"tkregister2", "mri_coreg", "mri_vol2vol", "antsApplyTransforms"}

\* FS_T1, ACPC_T1, PARC_FS, MNI_T1, XFM
InputPaths == {"FS_T1", "ACPC_T1", "PARC_FS", "MNI_T1", "XFM"}

\* PARC_ACPC / PARC_MNI: the explicit output if given, else the default in
\* the output directory
PARC_ACPC ==
  IF w_parc_acpc_out # None THEN w_parc_acpc_out
  ELSE "OUTDIR/parcellation_space-ACPC_dseg.nii.gz"
PARC_MNI ==
  IF w_parc_mni_out # None THEN w_parc_mni_out
  ELSE "OUTDIR/parcellation_space-MNI152NLin2009cAsym_dseg.nii.gz"

tkregister2_cmd ==
  Cmd("tkregister2",
      <<"--mov", "FS_T1", "--targ", "ACPC_T1", "--regheader", "--noedit",
        "--reg", "OUTDIR/FS2ACPC.dat", "--ltaout", "OUTDIR/FS2ACPC_init.lta">>)

mri_coreg_cmd ==
  Cmd("mri_coreg",
      <<"--mov", "FS_T1", "--ref", "ACPC_T1", "--reg", "OUTDIR/FS2ACPC_coreg.dat",
        "--lta", "OUTDIR/FS2ACPC_coreg.lta", "--threads", "args.threads">>)

mri_vol2vol_cmd ==
  Cmd("mri_vol2vol",
      <<"--mov", "PARC_FS", "--targ", "ACPC_T1", "--o", PARC_ACPC,
        "--lta", "OUTDIR/FS2ACPC_coreg.lta", "--nearest", "--no-save-reg">>)

\* The ACPC parcellation resampled with linear interpolation.
AntsApplyLinear ==
  Cmd("antsApplyTransforms",
      <<"-d", "3", "-v", "1", "-i", PARC_ACPC, "-r", "MNI_T1", "-o", PARC_MNI,
        "-n", "Linear", "-t", "XFM">>)

antsApplyTransforms_cmd ==
  Cmd("antsApplyTransforms",
      <<"-d", "3", "-v", "1", "-i", PARC_ACPC, "-r", "MNI_T1", "-o", PARC_MNI,
        "-n", "NearestNeighbor", "-t", "XFM">>)

\* REG_INIT, LTA_INIT and REG_COREG, LTA_COREG
tkregister2_outputs == {"OUTDIR/FS2ACPC.dat", "OUTDIR/FS2ACPC_init.lta"}
mri_coreg_outputs == {"OUTDIR/FS2ACPC_coreg.dat", "OUTDIR/FS2ACPC_coreg.lta"}

WarpIdle ==
  /\ w_pc = "idle"
  /\ w_exes = {}
  /\ w_inputs = {}
  /\ w_parc_acpc_out = None
  /\ w_parc_mni_out = None
  /\ w_cmds = <<>>
  /\ w_files = {}

WarpInit ==
  /\ w_pc = "start"
  /\ w_exes \in SUBSET Executables
  /\ w_inputs \in SUBSET InputPaths
  /\ w_parc_acpc_out \in {None, "acpc_out.nii.gz"}
  /\ w_parc_mni_out \in {None, "mni_out.nii.gz"}
  /\ w_cmds = <<>>
  /\ w_files = {}

\* A run() that does not check the exit status: main() goes on after a
\* failed command.
WarpRunUnchecked(cmd, outputs, next) ==
  /\ w_cmds' = Append(w_cmds, cmd)
  /\ \/ /\ w_files' = w_files \cup outputs
        /\ w_pc' = next
     \/ /\ UNCHANGED w_files
        /\ w_pc' = next
  /\ UNCHANGED <<w_exes, w_inputs, w_parc_acpc_out, w_parc_mni_out>>
  /\ UNCHANGED <<buildVars, tidyVars, normVars, sidecarVars>>

\* run(cmd) of one step: the command is issued; it writes its outputs and
\* main() goes on, or it exits non-zero and check_call raises.
WarpRun(cmd, outputs, next) ==
  /\ w_cmds' = Append(w_cmds, cmd)
  /\ \/ /\ w_files' = w_files \cup outputs
        /\ w_pc' = next
     \/ /\ UNCHANGED w_files
        /\ w_pc' = "failed"
  /\ UNCHANGED <<w_exes, w_inputs, w_parc_acpc_out, w_parc_mni_out>>
  /\ UNCHANGED <<buildVars, tidyVars, normVars, sidecarVars>>

\* which_or_die for the four executables
WarpWhich ==
  /\ w_pc = "start"
  /\ w_pc' = IF Executables \subseteq w_exes THEN "found" ELSE "exit"
  /\ UNCHANGED <<w_exes, w_inputs, w_parc_acpc_out, w_parc_mni_out, w_cmds,
                 w_files>>
  /\ UNCHANGED <<buildVars, tidyVars, normVars, sidecarVars>>

\* Sanity checks: every input path exists
WarpSanity ==
  /\ w_pc = "found"
  /\ w_pc' = IF InputPaths \subseteq w_inputs THEN "checked" ELSE "exit"
  /\ UNCHANGED <<w_exes, w_inputs, w_parc_acpc_out, w_parc_mni_out, w_cmds,
                 w_files>>
  /\ UNCHANGED <<buildVars, tidyVars, normVars, sidecarVars>>

\* Step 1: tkregister2
WarpTkregister2 ==
  /\ w_pc = "checked"
  /\ WarpRun(tkregister2_cmd, tkregister2_outputs, "step1")

\* Step 2: mri_coreg
WarpMriCoreg ==
  /\ w_pc = "step1"
  /\ WarpRun(mri_coreg_cmd, mri_coreg_outputs, "step2")

\* Step 3: mri_vol2vol
WarpMriVol2vol ==
  /\ w_pc = "step2"
  /\ WarpRun(mri_vol2vol_cmd, {PARC_ACPC}, "step3")

\* Step 4: antsApplyTransforms
WarpAntsApply ==
  /\ w_pc = "step3"
  /\ WarpRun(antsApplyTransforms_cmd, {PARC_MNI}, "done")

WarpNext ==
  \/ WarpWhich
  \/ WarpSanity
  \/ WarpTkregister2
  \/ WarpMriCoreg
  \/ WarpMriVol2vol
  \/ WarpAntsApply

-----------------------------------------------------------------------------
(* JSON sidecars: bidsify/bidsify_qsiprep.py and                           *)
(* bidsify/fix_dwi_sidecars_and_sbref.py.  A JSON object is a function     *)
(* from its keys to JSON values; a JSON value is a record of its kind, its *)
(* text (a string or the digits of a number) and its items (a list).  A    *)
(* file is a record: whether it exists, and the object it holds.           *)

JNull == [kind |-> "null", text |-> <<>>, items |-> <<>>]
JNum(digits) == [kind |-> "number", text |-> digits, items |-> <<>>]
JStr(chars) == [kind |-> "string", text |-> chars, items |-> <<>>]
JList(items) == [kind |-> "list", text |-> <<>>, items |-> items]

\* Python truth value of a loaded JSON value
Truthy(v) ==
  CASE v.kind = "null" -> FALSE
    [] v.kind = "number" -> \E i \in DOMAIN v.text : v.text[i] \notin {"0", "."}
    [] v.kind = "string" -> v.text # <<>>
    [] v.kind = "list" -> v.items # <<>>

\* str(v)
PyStr(v) ==
  CASE v.kind = "null" -> <<"N", "o", "n", "e">>
    [] v.kind = "number" -> v.text
    [] v.kind = "string" -> v.text
    [] v.kind = "list" -> <<"[">> \o v.items \o <<"]">>

EmptyObj == [k \in {} |-> JNull]
\* meta[k] = v
SetKey(meta, k, v) ==
  [x \in DOMAIN meta \cup {k} |-> IF x = k THEN v ELSE meta[x]]
\* del meta[k]
DelKey(meta, k) == [x \in DOMAIN meta \ {k} |-> meta[x]]
\* meta.get(k): None when the key is absent
GetKey(meta, k) == IF k \in DOMAIN meta THEN meta[k] ELSE JNull

SNoFile == [exists |-> FALSE, meta |-> EmptyObj]
SFile(meta) == [exists |-> TRUE, meta |-> meta]

\* copy_file(src, dst): an existing dst is kept
copy_file(src, dst) == IF dst.exists THEN dst ELSE src

\* The first step of both update functions: EstimatedTotalReadoutTime is
\* promoted when TotalReadoutTime is absent or falsy, and deleted.
PromoteReadout(meta) ==
  IF "EstimatedTotalReadoutTime" \in DOMAIN meta
  THEN LET m1 == IF \/ "TotalReadoutTime" \notin DOMAIN meta
                    \/ ~Truthy(meta["TotalReadoutTime"])
                 THEN SetKey(meta, "TotalReadoutTime",
                             meta["EstimatedTotalReadoutTime"])
                 ELSE meta
       IN DelKey(m1, "EstimatedTotalReadoutTime")
  ELSE meta

\* The condition of the last `if` of both update functions
PedMissing(meta) ==
  \/ "PhaseEncodingDirection" \notin DOMAIN meta
  \/ Strip(PyStr(meta["PhaseEncodingDirection"])) = <<>>

\* The last `if` of both update functions: meta is the edited object, file
\* is what json_path holds; save_json is reached only inside the `if`.
SaveIfPedMissing(file, meta, ped) ==
  IF PedMissing(meta)
  THEN SFile(IF Truthy(ped) THEN SetKey(meta, "PhaseEncodingDirection", ped)
             ELSE meta)
  ELSE file

\* update_dwi_json(json_path, ped): what json_path holds afterwards
update_dwi_json(file, ped) ==
  SaveIfPedMissing(file, PromoteReadout(file.meta), ped)

\* update_fmap_json(json_path, ped, intended_files)
update_fmap_json(file, ped, intended_files) ==
  SaveIfPedMissing(file,
                   SetKey(PromoteReadout(file.meta), "IntendedFor",
                          JList(intended_files)),
                   ped)

\* str.lower()
LowerStr(s) == IF s = <<>> THEN <<>> ELSE [i \in DOMAIN s |-> LowerChar(s[i])]
\* sub in s
Contains(s, sub) ==
  \E i \in 0..(Len(s) - Len(sub)) : SubSeq(s, i + 1, i + Len(sub)) = sub

infer_ped_from_name_and_meta(fname, meta) ==
  LET f == LowerStr(fname)
      axis == GetKey(meta, "PhaseEncodingAxis")
      desc == GetKey(meta, "SeriesDescription")
      sd == IF Truthy(desc) THEN LowerStr(desc.text) ELSE <<>>
  IN IF Contains(f, <<"d", "i", "r", "-", "a", "p">>) THEN <<"j", "-">>
     ELSE IF Contains(f, <<"d", "i", "r", "-", "p", "a">>) THEN <<"j">>
     ELSE IF axis.kind = "string" /\ axis.text \in {<<"i">>, <<"j">>, <<"k">>}
     THEN IF Contains(sd, <<"a", "p">>) /\ ~Contains(sd, <<"p", "a">>)
          THEN axis.text \o <<"-">>
          ELSE axis.text
     ELSE <<"j">>

\* fix_json(js_path): what js_path holds afterwards, and the value returned
fix_json(file, stem) ==
  LET meta == file.meta
      promote == /\ "TotalReadoutTime" \notin DOMAIN meta
                 /\ "EstimatedTotalReadoutTime" \in DOMAIN meta
      m1 == IF promote
            THEN DelKey(SetKey(meta, "TotalReadoutTime",
                               meta["EstimatedTotalReadoutTime"]),
                        "EstimatedTotalReadoutTime")
            ELSE meta
      addPed == "PhaseEncodingDirection" \notin DOMAIN m1
      m2 == IF addPed
            THEN SetKey(m1, "PhaseEncodingDirection",
                        JStr(infer_ped_from_name_and_meta(stem, m1)))
            ELSE m1
      changed == promote \/ addPed
  IN [file |-> IF changed THEN SFile(m2) ELSE file, changed |-> changed]

-----------------------------------------------------------------------------
(* The sidecars the model starts from.                                     *)

Absent == [kind |-> "absent", text |-> <<>>, items |-> <<>>]
SidecarKeys == {"EstimatedTotalReadoutTime", "TotalReadoutTime",
                "PhaseEncodingDirection", "PhaseEncodingAxis",
                "SeriesDescription", "IntendedFor"}

\* The object with the given values, a key left out where the value is Absent
Obj(full) ==
  [k \in {x \in DOMAIN full : full[x] # Absent} |-> full[k]]

\* The sidecars: each key absent or with one of a few values (a readout
\* time of 0, a blank direction, a description naming both directions)
Sidecars ==
  {Obj([k \in SidecarKeys |->
          CASE k = "EstimatedTotalReadoutTime" -> e
            [] k = "TotalReadoutTime" -> t
            [] k = "PhaseEncodingDirection" -> p
            [] k = "PhaseEncodingAxis" -> a
            [] k = "SeriesDescription" -> d
            [] k = "IntendedFor" -> i]) :
     e \in {Absent, JNum(<<"0", ".", "0", "5">>)},
     t \in {Absent, JNum(<<"0">>), JNum(<<"0", ".", "0", "3">>)},
     p \in {Absent, JStr(<<>>), JStr(<<" ">>), JStr(<<"j">>)},
     a \in {Absent, JStr(<<"i">>)},
     d \in {Absent, JStr(<<"A", "P">>), JStr(<<"a", "p", "a">>)},
     i \in {Absent, JList(<<"dwi/old.nii.gz">>)}}

\* A sidecar of the inputs directory whose copy an earlier run left in place
RawSidecar ==
  Obj([k \in SidecarKeys |->
         IF k = "EstimatedTotalReadoutTime" THEN JNum(<<"0", ".", "0", "5">>)
         ELSE Absent])

Stems ==
  LET sub == <<"s", "u", "b", "-", "1", "_">>
      dwi == <<"_", "d", "w", "i">>
  IN {sub \o <<"d", "i", "r", "-", "A", "P">> \o dwi,
      sub \o <<"d", "i", "r", "-", "P", "A">> \o dwi,
      sub \o <<"r", "u", "n", "-", "1">> \o dwi}

SidecarIdle ==
  /\ s_pc = "idle"
  /\ s_src = SNoFile
  /\ s_file = SNoFile
  /\ s_stem = <<>>
  /\ s_ped = JNull
  /\ s_intended = <<>>
  /\ s_before = SNoFile
  /\ s_changed = FALSE

SidecarInit ==
  /\ s_pc = "start"
  /\ \/ /\ s_file = SNoFile
        /\ s_src \in {SFile(m) : m \in Sidecars}
     \/ /\ s_file \in {SFile(m) : m \in Sidecars}
        /\ s_src \in {SNoFile, SFile(RawSidecar)}
  /\ s_stem \in Stems
  \* infer_ped_from_dir returns a value of PED_MAP, or None
  /\ s_ped \in {JNull, JStr(<<"j", "-">>)}
  /\ s_intended \in {<<>>, <<"dwi/sub-1_acq-b1000_dir-AP_dwi.nii.gz">>}
  /\ s_before = SNoFile
  /\ s_changed = FALSE

\* process_one_subject, DWI loop: the companion .json is copied when the
\* input has one, and the copy is updated when it exists.
ProcessDwiSidecar ==
  /\ s_pc = "start"
  /\ LET copied == IF s_src.exists THEN copy_file(s_src, s_file) ELSE s_file
     IN /\ s_before' = copied
        /\ s_file' = IF copied.exists THEN update_dwi_json(copied, s_ped)
                     ELSE copied
  /\ s_pc' = "dwi"
  /\ UNCHANGED <<s_src, s_stem, s_ped, s_intended, s_changed>>
  /\ UNCHANGED <<buildVars, tidyVars, normVars, warpVars>>

\* process_one_subject, FMAP loop: copy and update only when the input has
\* a .json.
ProcessFmapSidecar ==
  /\ s_pc = "start"
  /\ LET copied == IF s_src.exists THEN copy_file(s_src, s_file) ELSE s_file
     IN /\ s_before' = copied
        /\ s_file' = IF s_src.exists
                     THEN update_fmap_json(copied, s_ped, s_intended)
                     ELSE copied
  /\ s_pc' = "fmap"
  /\ UNCHANGED <<s_src, s_stem, s_ped, s_intended, s_changed>>
  /\ UNCHANGED <<buildVars, tidyVars, normVars, warpVars>>

\* fix_dwi_sidecars_and_sbref.py main (A): fix_json on a .json of the dwi
\* directory, as it was found or as the DWI loop left it.
FixJson ==
  /\ s_pc \in {"start", "dwi"}
  /\ s_file.exists
  /\ s_before' = s_file
  /\ s_file' = fix_json(s_file, s_stem).file
  /\ s_changed' = fix_json(s_file, s_stem).changed
  /\ s_pc' = "fixed"
  /\ UNCHANGED <<s_src, s_stem, s_ped, s_intended>>
  /\ UNCHANGED <<buildVars, tidyVars, normVars, warpVars>>

\* A second run of the script on the same file
FixJsonAgain ==
  /\ s_pc = "fixed"
  /\ s_before' = s_file
  /\ s_file' = fix_json(s_file, s_stem).file
  /\ s_changed' = fix_json(s_file, s_stem).changed
  /\ s_pc' = "fixed_twice"
  /\ UNCHANGED <<s_src, s_stem, s_ped, s_intended>>
  /\ UNCHANGED <<buildVars, tidyVars, normVars, warpVars>>

SidecarNext ==
  \/ ProcessDwiSidecar
  \/ ProcessFmapSidecar
  \/ FixJson
  \/ FixJsonAgain

-----------------------------------------------------------------------------
(* The specifications: one per program.                                    *)

\* build_custom_hcp_thomas.py
Init == BuildInit /\ TidyIdle /\ NormIdle /\ WarpIdle /\ SidecarIdle
Next == BuildNext
Spec == Init /\ [][Next]_vars

\* tidy_LUTS_qsirecon.py
InitTidy == TidyInit /\ BuildIdle /\ NormIdle /\ WarpIdle /\ SidecarIdle
NextTidy == TidyNext
SpecTidy == InitTidy /\ [][NextTidy]_vars

\* normalized_lr
InitNorm == NormInit /\ BuildIdle /\ TidyIdle /\ WarpIdle /\ SidecarIdle
NextNorm == NormNext
SpecNorm == InitNorm /\ [][NextNorm]_vars

\* warp_parc_to_acpc_and_mni.py, run on the output of a finished atlas build
InitWarp == WarpInit /\ BuildRan /\ TidyIdle /\ NormIdle /\ SidecarIdle
NextWarp == WarpNext
SpecWarp == InitWarp /\ [][NextWarp]_vars


\* bidsify_qsiprep.py and fix_dwi_sidecars_and_sbref.py, on one JSON sidecar
InitSidecar == SidecarInit /\ BuildIdle /\ TidyIdle /\ NormIdle /\ WarpIdle
NextSidecar == SidecarNext
SpecSidecar == InitSidecar /\ [][NextSidecar]_vars

-----------------------------------------------------------------------------
(* Properties of the atlas build.                                          *)

\* The three volumes of the stitch are on disk.
Loaded ==
  /\ hcp_vol # NoFile
  /\ thomas_left_in_fs # NoFile
  /\ thomas_right_in_fs # NoFile

SameShape ==
  /\ hcp_vol.shape = thomas_left_in_fs.shape
  /\ hcp_vol.shape = thomas_right_in_fs.shape

\* The stitch returned and saved its output, for volumes of one shape.
StitchedSameShape == Loaded /\ merged # NoFile /\ SameShape

Max(S) == CHOOSE m \in S : \A x \in S : x <= m
Voxels == Indices(hcp_vol.shape)
LeftFg(i) == thomas_left_in_fs.data[i] > 0
RightFg(i) == thomas_right_in_fs.data[i] > 0
Values(vol) == {vol.data[i] : i \in Indices(vol.shape)}
Foreground(vol) == {x \in Values(vol) : x > 0}
MapIds(map) == {map[v] : v \in DOMAIN map}

\* C1: at every voxel where the left or the right THOMAS volume
\* is > 0 the stitched output differs from the primary volume's value, for
\* any offsets and either value of keep_hcp_ids.
C1_Overwrite ==
  StitchedSameShape =>
    \A i \in Voxels :
      (LeftFg(i) \/ RightFg(i)) => merged.data[i] # hcp_vol.data[i]

\* C3 as claimed: with offsets 8000 and 9000 and fewer than 1000 distinct
\* foreground values per side, no new id of left_map equals one of
\* right_map and no new id is <= the largest primary label value.
C3_DisjointAnyPrimary ==
  (/\ StitchedSameShape
   /\ keep_hcp_ids
   /\ left_offset = 8000
   /\ right_offset = 9000
   /\ Cardinality(Foreground(thomas_left_in_fs)) < 1000
   /\ Cardinality(Foreground(thomas_right_in_fs)) < 1000) =>
    /\ MapIds(left_map) \cap MapIds(right_map) = {}
    /\ \A id \in MapIds(left_map) \cup MapIds(right_map) :
         id > Max(Values(hcp_vol))

\* C3, amended: the new ids of the two maps are disjoint, and none is <= the
\* largest primary label value when that value is at most 8000.
C3_Disjoint ==
  (/\ StitchedSameShape
   /\ keep_hcp_ids
   /\ left_offset = 8000
   /\ right_offset = 9000
   /\ Cardinality(Foreground(thomas_left_in_fs)) < 1000
   /\ Cardinality(Foreground(thomas_right_in_fs)) < 1000) =>
    /\ MapIds(left_map) \cap MapIds(right_map) = {}
    /\ Max(Values(hcp_vol)) <= 8000 =>
         \A id \in MapIds(left_map) \cup MapIds(right_map) :
           id > Max(Values(hcp_vol))

C3_Witness ==
  /\ StitchedSameShape
  /\ keep_hcp_ids
  /\ left_offset = 8000
  /\ right_offset = 9000
  /\ Cardinality(MapIds(left_map)) = 2
  /\ Cardinality(MapIds(right_map)) = 2
  /\ Max(Values(hcp_vol)) = 2

\* C4: with keep_hcp_ids the remap dictionary of a side has as keys exactly
\* the distinct values > 0 of that side's volume and sends the r-th smallest
\* to offset + r, so its ids are offset+1 .. offset+n; no foreground gives
\* the empty dictionary.
RemapIsOffsetPlusRank(map, vol, offset) ==
  /\ DOMAIN map = Foreground(vol)
  /\ \A v \in DOMAIN map :
       map[v] = offset + Cardinality({u \in Foreground(vol) : u <= v})
  /\ MapIds(map) = (offset + 1)..(offset + Cardinality(Foreground(vol)))
  /\ Foreground(vol) = {} => map = EmptyMap

C4_RemapOffsetRank ==
  (Loaded /\ merged # NoFile /\ keep_hcp_ids) =>
    /\ RemapIsOffsetPlusRank(left_map, thomas_left_in_fs, left_offset)
    /\ RemapIsOffsetPlusRank(right_map, thomas_right_in_fs, right_offset)

C4_Witness ==
  /\ Loaded /\ merged # NoFile /\ keep_hcp_ids
  /\ Foreground(thomas_left_in_fs) = {2, 5}
  /\ Foreground(thomas_right_in_fs) = {}
  /\ thomas_left_in_fs.data[<<1>>] = 5

\* C6 as claimed: atlas_labels.tsv never holds two rows with the same id
\* when the two offset ranges do not overlap and both offsets exceed every
\* id of the primary atlas (its volume and its annotation tables).
HcpRowIds ==
  {labels_tsv.rows[k].id : k \in {j \in DOMAIN labels_tsv.rows : labels_tsv.rows[j].source = "HCP-MMP1"}}

C6_UniqueIds ==
  (/\ labels_tsv # NoFile
   /\ MapIds(left_map) \cap MapIds(right_map) = {}
   /\ \A x \in Values(hcp_vol) \cup HcpRowIds :
        left_offset > x /\ right_offset > x) =>
    \A j, k \in DOMAIN labels_tsv.rows :
      labels_tsv.rows[j].id = labels_tsv.rows[k].id => j = k

\* C7 as claimed: for either value of keep_hcp_ids, the stitched value of
\* every voxel inside the left or right THOMAS footprint is the id of a
\* THOMAS row of the label table.
C7_FootprintHasRow ==
  (StitchedSameShape /\ labels_tsv # NoFile) =>
    \A i \in Voxels :
      (LeftFg(i) \/ RightFg(i)) =>
        \E k \in DOMAIN labels_tsv.rows :
          /\ labels_tsv.rows[k].source = "THOMAS"
          /\ labels_tsv.rows[k].id = merged.data[i]

\* C8 as claimed: when the three volumes of a stitch do not all have the
\* same shape, the stitch fails and no merged volume is written.
C8_ShapeMismatchFatal ==
  (Loaded /\ pc # "thomas" /\ ~SameShape) =>
    (pc = "failed" /\ merged = NoFile)

\* C10: a voxel where the right THOMAS volume is foreground holds the right
\* volume's (remapped) value, also where the left volume is foreground; a
\* voxel where only the left volume is foreground holds the left volume's
\* (remapped) value.
Remapped(map, v) == IF keep_hcp_ids THEN map[v] ELSE v

C10_LaterWins ==
  StitchedSameShape =>
    \A i \in Voxels :
      /\ RightFg(i) =>
           merged.data[i] = Remapped(right_map, thomas_right_in_fs.data[i])
      /\ (LeftFg(i) /\ ~RightFg(i)) =>
           merged.data[i] = Remapped(left_map, thomas_left_in_fs.data[i])

C10_Witness ==
  /\ StitchedSameShape
  /\ keep_hcp_ids
  /\ \E i \in Voxels : LeftFg(i) /\ RightFg(i)
  /\ \E i \in Voxels : LeftFg(i) /\ ~RightFg(i)


\* C11: every voxel where the left and the right THOMAS volumes are both 0
\* holds, in the stitched output, exactly the value the primary volume has
\* at that voxel.
C11_Frame ==
  StitchedSameShape =>
    \A i \in Voxels :
      (~LeftFg(i) /\ ~RightFg(i)) => merged.data[i] = hcp_vol.data[i]

C11_Witness ==
  /\ StitchedSameShape
  /\ \E i \in Voxels : ~LeftFg(i) /\ ~RightFg(i) /\ hcp_vol.data[i] > 0
  /\ \E i \in Voxels : LeftFg(i) /\ hcp_vol.data[i] > 0

\* C14: for every (original id, new id) pair of left_map and of right_map
\* the label table has exactly one row with id = new id, source THOMAS and
\* hemisphere L (left map) or R (right map), named by the side's name source
\* or by the placeholder THOMAS_<original id> when that source has no name;
\* the table has no other THOMAS row, and a missing name never fails the
\* build.
ExpectedThomasRow(map, names, hemi, orig) ==
  [id |-> map[orig],
   name |-> IF orig \in DOMAIN names THEN names[orig]
            ELSE "THOMAS_" \o ToString(orig),
   hemi |-> hemi,
   source |-> "THOMAS"]

ThomasRowIndices ==
  {k \in DOMAIN labels_tsv.rows : labels_tsv.rows[k].source = "THOMAS"}

C14_PlaceholderNames ==
  /\ labels_tsv # NoFile =>
       /\ Cardinality(ThomasRowIndices) =
            Cardinality(DOMAIN left_map) + Cardinality(DOMAIN right_map)
       /\ \A orig \in DOMAIN left_map :
            Cardinality({k \in ThomasRowIndices :
              labels_tsv.rows[k] = ExpectedThomasRow(left_map, l_names, "L", orig)}) = 1
       /\ \A orig \in DOMAIN right_map :
            Cardinality({k \in ThomasRowIndices :
              labels_tsv.rows[k] = ExpectedThomasRow(right_map, r_names, "R", orig)}) = 1
  /\ (pc = "failed" /\ merged # NoFile) =>
       \E a \in {lh_annot, rh_annot} : a.kind \in {"badctab", "unreadable"}

C14_Witness ==
  /\ labels_tsv # NoFile
  /\ \E orig \in DOMAIN left_map : orig \notin DOMAIN l_names
  /\ \E orig \in DOMAIN left_map : orig \in DOMAIN l_names
  /\ \E orig \in DOMAIN right_map : orig \notin DOMAIN r_names

\* C16 as claimed: in each output label table (atlas_labels.tsv of the
\* atlas build, the TSV of the tidy-LUT step) every id is in exactly one
\* row and the rows are in ascending order of id.
C16_SortedOneRowPerId ==
  /\ labels_tsv # NoFile =>
       \A j, k \in DOMAIN labels_tsv.rows :
         j < k => labels_tsv.rows[j].id < labels_tsv.rows[k].id
  /\ out_tsv # NoFile =>
       \A j, k \in DOMAIN out_tsv.rows :
         j < k => out_tsv.rows[j].index < out_tsv.rows[k].index

\* C17 as claimed: a run that fails at any step leaves no output volume
\* and no output table written.
C17_NoPartialOutput ==
  /\ pc = "failed" => (merged = NoFile /\ labels_tsv = NoFile)
  /\ t_pc \in {"failed", "exit"} => out_tsv = NoFile
\* The commands of steps 1 and 2, in the order main() issues them
BuildCommands == make_hcp_vol_aparc_cmds \o thomas_to_fs_with_coreg_cmds

\* s is an initial segment of t
IsPrefix(s, t) == Len(s) <= Len(t) /\ s = SubSeq(t, 1, Len(s))

\* C23: the steps of main() run in the order HCP projection, THOMAS
\* coregistration, stitch, label TSV, manifest, each only after every earlier
\* one succeeded: a THOMAS command was issued only after the projection wrote
\* its volume, the merged volume was written only after all the commands ran
\* and both THOMAS volumes were written, the label TSV only after the merged
\* volume, and the manifest only after the merged volume and the label TSV
\* it names were written in this run.
C23_StepsInOrder ==
  /\ IsPrefix(cmds, BuildCommands)
  /\ Len(cmds) > Len(make_hcp_vol_aparc_cmds) => hcp_vol # NoFile
  /\ thomas_left_in_fs # NoFile
       => hcp_vol # NoFile /\ Len(cmds) > Len(make_hcp_vol_aparc_cmds)
  /\ thomas_right_in_fs # NoFile => thomas_left_in_fs # NoFile
  /\ merged # NoFile
       => /\ cmds = BuildCommands
          /\ thomas_left_in_fs # NoFile
          /\ thomas_right_in_fs # NoFile
  /\ labels_tsv # NoFile => merged # NoFile
  /\ manifest # NoFile
       => /\ merged # NoFile
          /\ labels_tsv # NoFile
          /\ pc = "done"
  /\ pc = "done" => manifest # NoFile

\* A finished run: the manifest is written, after the stitch of a volume with
\* both THOMAS footprints and the label table.
C23_Witness ==
  /\ pc = "done"
  /\ manifest # NoFile
  /\ merged # NoFile
  /\ labels_tsv # NoFile
  /\ cmds = BuildCommands

-----------------------------------------------------------------------------
(* Properties of the tidy-LUT step.                                        *)

RowIds == {out_tsv.rows[k].index : k \in DOMAIN out_tsv.rows}

\* C2 as claimed: the rows written have an id set equal to the set of
\* distinct foreground (> 0) values of the dseg volume, one row per id, and
\* no row for an id of a lookup table that is not in the volume.  (Voxel
\* values are held doubled, so the row ids are doubled to compare.)
C2_ExactlyPresent ==
  t_pc = "done" =>
    /\ {2 * id : id \in RowIds} = {dseg.data[i] : i \in {j \in Indices(dseg.shape) : dseg.data[j] > 0}}
    /\ \A j, k \in DOMAIN out_tsv.rows : out_tsv.rows[j].index = out_tsv.rows[k].index => j = k
    /\ \A id \in DOMAIN hcp_map \cup DOMAIN thomas_map :
         (\A i \in Indices(dseg.shape) : dseg.data[i] # 2 * id) => id \notin RowIds

\* C9: for each present id the row is the HCP entry when the id is in the
\* HCP table (also when it is in the THOMAS table too), else the THOMAS
\* entry when the id is there, else the sentinel Unknown-{id} / Unknown.
C9_Precedence ==
  t_pc = "done" =>
    /\ RowIds = present
    /\ \A k \in DOMAIN out_tsv.rows :
         LET id == out_tsv.rows[k].index
             got == [label |-> out_tsv.rows[k].label, source |-> out_tsv.rows[k].source]
         IN /\ id \in DOMAIN hcp_map => got = hcp_map[id]
            /\ (id \notin DOMAIN hcp_map /\ id \in DOMAIN thomas_map) =>
                 got = thomas_map[id]
            /\ (id \notin DOMAIN hcp_map /\ id \notin DOMAIN thomas_map) =>
                 /\ got.source = "Unknown"
                 /\ got.label =
                      <<"U", "n", "k", "n", "o", "w", "n", "-">> \o Digits(id)

C9_Witness ==
  /\ t_pc = "done"
  /\ \E k \in DOMAIN out_tsv.rows :
       /\ out_tsv.rows[k].index \in DOMAIN hcp_map \cap DOMAIN thomas_map
       /\ out_tsv.rows[k].source = "HCP-MMP1"
       /\ hcp_map[out_tsv.rows[k].index] # [label |-> thomas_map[out_tsv.rows[k].index].label,
                                       source |-> "HCP-MMP1"]
  /\ \E k \in DOMAIN out_tsv.rows : out_tsv.rows[k].source = "Unknown"

\* The loaders have run.
AfterLoad == t_pc \in {"loaded", "failed", "done"}

\* The lines of the HCP LUT that are "<integer-id> <name> ...", and those
\* among them no later such line with the same id follows.
ParsedLines ==
  {k \in DOMAIN hcp_lut.lines :
     /\ hcp_lut.lines[k].kind = "fields"
     /\ hcp_lut.lines[k].intok
     /\ Len(hcp_lut.lines[k].rest) >= 1}
LastParsedLines ==
  {k \in ParsedLines :
     \A j \in ParsedLines : j > k => hcp_lut.lines[j].idx # hcp_lut.lines[k].idx}

CtxLhPrecentral ==
  <<"c", "t", "x", "-", "l", "h", "-", "p", "r", "e", "c", "e", "n", "t", "r",
    "a", "l">>
LPrecentral == <<"L", "-", "p", "r", "e", "c", "e", "n", "t", "r", "a", "l">>

\* C12: for every parsed line "<integer-id> <name> ..." load_hcp_lut maps
\* the id to "{hemi}-{base}", hemi detected from the name and base the
\* stripped name, and to base alone when no hemisphere is detected; the
\* line "12 ctx-lh-precentral" gives 12 -> "L-precentral".
C12_LabelFormat ==
  AfterLoad =>
    \A k \in LastParsedLines :
      LET line == hcp_lut.lines[k]
          name == line.rest[1]
          hemi == detect_hemi(name)
          base == Strip(strip_hemi_prefix(name))
      IN /\ line.idx \in DOMAIN hcp_map
         /\ hcp_map[line.idx].source = "HCP-MMP1"
         /\ hemi \in {"L", "R"} => hcp_map[line.idx].label = <<hemi, "-">> \o base
         /\ hemi \notin {"L", "R"} => hcp_map[line.idx].label = base
         /\ name = CtxLhPrecentral => hcp_map[line.idx].label = LPrecentral
         /\ name = <<"V", "1">> => hcp_map[line.idx].label = <<"V", "1">>

C12_Witness ==
  /\ AfterLoad
  /\ \E k \in LastParsedLines :
       /\ hcp_lut.lines[k].idx = 12
       /\ hcp_lut.lines[k].rest[1] = CtxLhPrecentral
       /\ hcp_map[12].label = LPrecentral
  /\ \E k \in LastParsedLines : hcp_map[hcp_lut.lines[k].idx].label = <<"V", "1">>

\* The header names load_thomas_lut accepts, in the cases the tables use.
IdHeaders == {"id", "ID", "index", "Index", "label_id", "Label_ID"}
NameHeaders == {"name", "Name", "label", "Label"}
HemiHeaders == {"hemi", "Hemi", "hemisphere", "Hemisphere"}
HasHeader(H) == \E k \in DOMAIN thomas_lut.columns : thomas_lut.columns[k] \in H
ColumnOf(H) ==
  Min({k \in DOMAIN thomas_lut.columns : thomas_lut.columns[k] \in H})

\* C13 as claimed: every row with an integer id is loaded; its hemisphere
\* is the hemisphere column's when that resolves to L or R, and in every
\* other case (no such column, missing, blank or whitespace-only value, a
\* value that is not L/R) the one inferred from the name.
C13_HemiColumnOrName ==
  (AfterLoad /\ HasHeader(IdHeaders) /\ HasHeader(NameHeaders)) =>
    /\ t_error = "none"
    /\ \A k \in DOMAIN thomas_lut.rows :
         LET row == thomas_lut.rows[k]
             id == row[ColumnOf(IdHeaders)]
             name == row[ColumnOf(NameHeaders)].text
             txt == IF HasHeader(HemiHeaders) /\ ~row[ColumnOf(HemiHeaders)].na
                    THEN Strip(row[ColumnOf(HemiHeaders)].text) ELSE <<>>
             first == IF txt = <<>> THEN None ELSE UpperChar(txt[1])
             hemi == IF first \in {"L", "R"} THEN first ELSE detect_hemi(name)
             base == strip_hemi_prefix(name)
             last == \A j \in DOMAIN thomas_lut.rows :
                       (j > k /\ thomas_lut.rows[j][ColumnOf(IdHeaders)].intok) =>
                         thomas_lut.rows[j][ColumnOf(IdHeaders)].n # id.n
         IN (id.intok /\ last) =>
              /\ id.n \in DOMAIN thomas_map
              /\ thomas_map[id.n].label =
                   (IF hemi \in {"L", "R"} THEN <<hemi, "-">> \o base ELSE base)

\* C15: load_thomas_lut fails, with its schema error and no table, when the
\* header has no id/index/label_id column or no name/label column (in any
\* letter case), and does not raise that error when both are there.
C15_SchemaError ==
  AfterLoad =>
    /\ (~HasHeader(IdHeaders) \/ ~HasHeader(NameHeaders)) =>
         /\ t_pc = "failed"
         /\ t_error = "ValueError"
         /\ thomas_map = EmptyMap
         /\ out_tsv = NoFile
    /\ (HasHeader(IdHeaders) /\ HasHeader(NameHeaders)) => t_error # "ValueError"

C15_Witness ==
  /\ t_pc = "failed"
  /\ t_error = "ValueError"
  /\ HasHeader(IdHeaders)
  /\ ~HasHeader(NameHeaders)

\* C18: load_hcp_lut never aborts on a line: empty lines, comment lines,
\* lines whose first field is no integer and lines without a name field are
\* skipped, and the table has an entry for the id of every other line and
\* for no other id, the last line with an id giving its entry.
C18_TolerantParsing ==
  AfterLoad =>
    /\ DOMAIN hcp_map = {hcp_lut.lines[k].idx : k \in ParsedLines}
    /\ \A k \in LastParsedLines :
         hcp_map[hcp_lut.lines[k].idx] =
           load_hcp_lut(<<hcp_lut.lines[k]>>)[hcp_lut.lines[k].idx]
    /\ t_pc = "failed" => t_error \in {"ValueError", "IndexError"}

C18_Witness ==
  /\ t_pc = "done"
  /\ Len(hcp_lut.lines) = MaxLines
  /\ 1 \notin ParsedLines
  /\ hcp_lut.lines[1].kind = "fields"
  /\ ParsedLines # {}
  /\ DOMAIN hcp_map # {}

\* C19 as claimed: load_present_ids returns exactly the distinct voxel
\* values > 0: 0 is never returned and every returned id is a value some
\* voxel holds, also for volumes with non-integer voxel values.  (Voxel
\* values are held doubled.)
C19_PresentIds ==
  AfterLoad =>
    /\ 0 \notin present
    /\ \A id \in present : \E i \in Indices(dseg.shape) : dseg.data[i] = 2 * id
    /\ {2 * id : id \in present} =
         {dseg.data[i] : i \in {j \in Indices(dseg.shape) : dseg.data[j] > 0}}

-----------------------------------------------------------------------------
(* Properties of the name normalization.                                   *)

\* C5 as claimed: for every name,
\* normalized_lr(normalized_lr(name)[1])[1] = normalized_lr(name)[1].
C5_StripIdempotent ==
  n_pc = "twice" => n_second.base = n_first.base

-----------------------------------------------------------------------------
(* Properties of the external commands.                                    *)

\* The argument that follows flag in an argument list, or None.
ArgAfter(args, flag) ==
  IF \E k \in 1..(Len(args) - 1) : args[k] = flag
  THEN args[Min({k \in 1..(Len(args) - 1) : args[k] = flag}) + 1]
  ELSE None

HasArg(args, flag) == \E k \in DOMAIN args : args[k] = flag

\* The label volumes: the THOMAS segmentations, the stitched parcellation
\* and the ACPC parcellation made from it.
LabelVolumes ==
  {"left/files/thomas.nii.gz", "right/files/thomasr.nii.gz", "PARC_FS",
   PARC_ACPC}

\* The moving / input image of a resampling command, None for any other.
MovingImage(c) ==
  CASE c.exe = "mri_vol2vol" -> ArgAfter(c.args, "--mov")
    [] c.exe = "antsApplyTransforms" -> ArgAfter(c.args, "-i")
    [] OTHER -> None

\* The command asks for nearest-neighbour interpolation and for no other.
NearestNeighbour(c) ==
  CASE c.exe = "mri_vol2vol" ->
         /\ HasArg(c.args, "--nearest")
         /\ \A f \in {"--interp", "--trilin", "--cubic"} : ~HasArg(c.args, f)
    [] c.exe = "antsApplyTransforms" ->
         ArgAfter(c.args, "-n") = "NearestNeighbor"
    [] OTHER -> FALSE

AllCommands ==
  {cmds[k] : k \in DOMAIN cmds} \cup {w_cmds[k] : k \in DOMAIN w_cmds}

\* C20: every resampling command issued with a label volume as its moving /
\* input image (mri_vol2vol on the two THOMAS label volumes and on the
\* stitched parcellation, antsApplyTransforms on the ACPC parcellation)
\* carries the nearest-neighbour option.
C20_NearestNeighbourOnly ==
  \A c \in AllCommands : MovingImage(c) \in LabelVolumes => NearestNeighbour(c)

C20_Witness ==
  /\ w_pc = "done"
  /\ \A v \in LabelVolumes : \E c \in AllCommands : MovingImage(c) = v
  /\ Cardinality({c \in AllCommands : MovingImage(c) \in LabelVolumes}) = 4
\* The four commands of main(), in the order it issues them
WarpCommands ==
  <<tkregister2_cmd, mri_coreg_cmd, mri_vol2vol_cmd, antsApplyTransforms_cmd>>

\* C24: no external command is run unless all four executables were found
\* and all five input paths exist; the commands run in the order
\* tkregister2, mri_coreg, mri_vol2vol, antsApplyTransforms, each only after
\* every earlier one exited successfully and so wrote its outputs; hence
\* antsApplyTransforms runs only on an ACPC parcellation that mri_vol2vol
\* wrote in this run.
C24_GuardsAndOrder ==
  /\ w_cmds # <<>>
       => (Executables \subseteq w_exes /\ InputPaths \subseteq w_inputs)
  /\ IsPrefix(w_cmds, WarpCommands)
  /\ Len(w_cmds) >= 2 => tkregister2_outputs \subseteq w_files
  /\ Len(w_cmds) >= 3 => mri_coreg_outputs \subseteq w_files
  /\ Len(w_cmds) >= 4 => PARC_ACPC \in w_files
  /\ \A k \in DOMAIN w_cmds :
       w_cmds[k].exe = "antsApplyTransforms"
         => /\ ArgAfter(w_cmds[k].args, "-i") = PARC_ACPC
            /\ \E j \in 1..(k - 1) :
                 /\ w_cmds[j].exe = "mri_vol2vol"
                 /\ ArgAfter(w_cmds[j].args, "--o") = PARC_ACPC
            /\ PARC_ACPC \in w_files

\* All four commands ran and the MNI parcellation is written.
C24_Witness ==
  /\ w_pc = "done"
  /\ w_cmds = WarpCommands
  /\ PARC_MNI \in w_files
  /\ Executables \subseteq w_exes
  /\ InputPaths \subseteq w_inputs

-----------------------------------------------------------------------------
(* Properties of the sidecar edits.                                        *)

HasKey(file, k) == file.exists /\ k \in DOMAIN file.meta

\* EstimatedTotalReadoutTime of `before` is gone from `after`, its value
\* promoted where `before` had no TotalReadoutTime or an empty one
ReadoutPromoted(before, after) ==
  /\ ~HasKey(after, "EstimatedTotalReadoutTime")
  /\ ( /\ HasKey(before, "EstimatedTotalReadoutTime")
       /\ \/ ~HasKey(before, "TotalReadoutTime")
          \/ ~Truthy(before.meta["TotalReadoutTime"]) )
     => /\ HasKey(after, "TotalReadoutTime")
        /\ after.meta["TotalReadoutTime"]
             = before.meta["EstimatedTotalReadoutTime"]

\* C21: once update_fmap_json has returned, the file on disk has IntendedFor
\* equal to intended_files; once update_dwi_json or update_fmap_json has
\* returned, the file on disk has no EstimatedTotalReadoutTime key, its value
\* promoted to TotalReadoutTime when that was absent or empty; whatever the
\* file held before.
C21_EditsPersisted ==
  /\ (s_pc = "fmap" /\ s_src.exists)
       => /\ HasKey(s_file, "IntendedFor")
          /\ s_file.meta["IntendedFor"] = JList(s_intended)
          /\ ReadoutPromoted(s_before, s_file)
  /\ (s_pc = "dwi" /\ s_file.exists) => ReadoutPromoted(s_before, s_file)

\* C22: after fix_json the file has no EstimatedTotalReadoutTime key and has
\* a PhaseEncodingDirection key, and a second fix_json on the same file
\* reports no change and leaves the file unchanged.
C22_FixJsonPromotesAndDeletes ==
  /\ s_pc \in {"fixed", "fixed_twice"}
       => /\ ~HasKey(s_file, "EstimatedTotalReadoutTime")
          /\ HasKey(s_file, "PhaseEncodingDirection")
  /\ s_pc = "fixed_twice" => (~s_changed /\ s_file = s_before)

====
